---- MODULE Spec2Model ----
(***************************************************************************)
(* Model of the CommandLine option framework (CommandLine.h) and of the    *)
(* raster2vector Options parser built on it (raster2vector.cpp).           *)
(*                                                                         *)
(* A token (a C string) is a sequence of one-character strings, so that    *)
(* strchr, strlen, operator>> and the '-' test act on its characters.      *)
(* A char const* is a record [null, s]: the null pointer or a string.      *)
(* argv is a sequence whose first element is argv[0]; the slot after the   *)
(* last element is the terminating null pointer.                           *)
(* A local variable of the source that is read several times is the        *)
(* parameter of a helper operator here (IntAt, SplitAt, Dispatch, ...).    *)
(***************************************************************************)
EXTENDS Integers, Sequences, FiniteSets, TLC

\* ------------------------------------------------------------------ bounds
\* Largest number of tokens after argv[0] given to the first Parse call.
MaxArgs == 3
\* Largest number of tokens after argv[0] given to a repeated Parse call.
MaxReArgs == 1
\* Largest number of Parse calls made on one Parser.
MaxCalls == 2
\* Largest number of pairs in the initializer list of a name map.
MaxPairs == 3
\* Largest number of options registered with one argMap.
MaxOptions == 3

\* --------------------------------------------------------------- pointers
NullPtr == [null |-> TRUE, s |-> <<>>]
Ptr(str) == [null |-> FALSE, s |-> str]

\* strlen
strlen(str) == Len(str)

RECURSIVE strchrFrom(_, _, _)
strchrFrom(str, c, i) ==
    IF i > Len(str) THEN 0
    ELSE IF str[i] = c THEN i
    ELSE strchrFrom(str, c, i + 1)

\* index of the last occurrence of c in str, 0 when there is none
strrchr(str, c) ==
    IF \E i \in 1..Len(str) : str[i] = c
    THEN CHOOSE i \in 1..Len(str) :
             str[i] = c /\ \A j \in (i + 1)..Len(str) : str[j] # c
    ELSE 0

\* strchr: index of the first occurrence of c in str, 0 when there is none
strchr(str, c) == strchrFrom(str, c, 1)

\* --------------------------------------------------- stream extraction
Digits == {"0", "1", "2", "3", "4", "5", "6", "7", "8", "9"}

DigitVal(c) ==
    CASE c = "0" -> 0 [] c = "1" -> 1 [] c = "2" -> 2 [] c = "3" -> 3
      [] c = "4" -> 4 [] c = "5" -> 5 [] c = "6" -> 6 [] c = "7" -> 7
      [] c = "8" -> 8 [] c = "9" -> 9

INT_MAX == 2147483647
INT_MIN == -2147483647 - 1

\* index of the first character of str at or after i that is not a blank
RECURSIVE SkipWs(_, _)
SkipWs(str, i) ==
    IF i <= Len(str) /\ str[i] = " " THEN SkipWs(str, i + 1) ELSE i

\* index just past the run of digits of str that starts at i
RECURSIVE DigitsEnd(_, _)
DigitsEnd(str, i) ==
    IF i <= Len(str) /\ str[i] \in Digits THEN DigitsEnd(str, i + 1) ELSE i

\* the number written by the digits str[i..j-1] (0 for an empty run)
RECURSIVE DigitsVal(_, _, _)
DigitsVal(str, i, j) ==
    IF j <= i THEN 0
    ELSE 10 * DigitsVal(str, i, j - 1) + DigitVal(str[j - 1])

\* one more digit d after the negated number p, kept in the range of an int
NegStep(p, d) ==
    IF p.ovf \/ p.v < (INT_MIN + d + 9) \div 10
    THEN [v |-> INT_MIN, ovf |-> TRUE]
    ELSE [v |-> 10 * p.v - d, ovf |-> FALSE]

\* the negated number written by the digits str[i..j-1], accumulated in the
\* range of an int; ovf when its magnitude exceeds that of INT_MIN
RECURSIVE DigitsNeg(_, _, _)
DigitsNeg(str, i, j) ==
    IF j <= i THEN [v |-> 0, ovf |-> FALSE]
    ELSE NegStep(DigitsNeg(str, i, j - 1), DigitVal(str[j - 1]))

\* a sign character stands at index b of str
IsSign(str, b) == b <= Len(str) /\ str[b] \in {"+", "-"}

\* a minus sign stands at index b of str
IsNeg(str, b) == b <= Len(str) /\ str[b] = "-"

\* the index after the optional sign at b
AfterSign(str, b) == IF IsSign(str, b) THEN b + 1 ELSE b

\* the int stored for sign neg and the digits [d, e) whose negated value is
\* n: 0 with failbit when there is no digit, the nearest limit with failbit
\* when the number does not fit an int
IntResult(neg, d, e, n) ==
    IF e = d THEN [val |-> 0, fail |-> TRUE, rest |-> e]
    ELSE IF neg THEN [val |-> n.v, fail |-> n.ovf, rest |-> e]
    ELSE IF n.ovf \/ n.v = INT_MIN
    THEN [val |-> INT_MAX, fail |-> TRUE, rest |-> e]
    ELSE [val |-> 0 - n.v, fail |-> FALSE, rest |-> e]

IntDigits(str, neg, d, e) == IntResult(neg, d, e, DigitsNeg(str, d, e))

IntBody(str, neg, d) == IntDigits(str, neg, d, DigitsEnd(str, d))

IntAt(str, b) == IntBody(str, IsNeg(str, b), AfterSign(str, b))

\* What "istringstream(str) >> int" does: skip blanks, take an optional sign
\* and the longest run of digits, and stop there.  fail is the stream's
\* failbit: set when there is no digit or the number does not fit an int
\* (the value stored is then 0, or the nearest int limit).  rest is the
\* index of the first character left unread.
ExtractInt(str) == IntAt(str, SkipWs(str, 1))

\* a decimal point stands at index e of str
HasDot(str, e) == e <= Len(str) /\ str[e] = "."

\* the first two digits after the point at e, as hundredths; f is the end
\* of the digits after the point
FracHundredths(str, e, f) ==
    (IF f > e + 1 THEN 10 * DigitVal(str[e + 1]) ELSE 0)
    + (IF f > e + 2 THEN DigitVal(str[e + 2]) ELSE 0)

DoubleValue(neg, f, n) ==
    [val |-> IF neg THEN 0 - n ELSE n, fail |-> FALSE, rest |-> f]

\* integer digits [d, e), then the point and its digits up to f (f = e
\* without a point); no digit at all is a failed extraction storing 0
DoubleFrac(str, neg, d, e, f) ==
    IF e = d /\ f <= e + 1 THEN [val |-> 0, fail |-> TRUE, rest |-> e]
    ELSE DoubleValue(neg, f,
                     100 * DigitsVal(str, d, e) + FracHundredths(str, e, f))

DoubleInt(str, neg, d, e) ==
    DoubleFrac(str, neg, d, e,
               IF HasDot(str, e) THEN DigitsEnd(str, e + 1) ELSE e)

DoubleBody(str, neg, d) == DoubleInt(str, neg, d, DigitsEnd(str, d))

DoubleAt(str, b) == DoubleBody(str, IsNeg(str, b), AfterSign(str, b))

\* A double is kept in hundredths (10.0 is 1000, 0.01 is 1).
\* What "istringstream(str) >> double" does for tokens without an exponent:
\* optional sign, digits, optional '.' and digits; the value is 0 with the
\* failbit set when no digit was read.
ExtractDouble(str) == DoubleAt(str, SkipWs(str, 1))

\* ss.bad(): the badbit of a string stream.  Extraction from a string sets
\* failbit or eofbit, never badbit.
bad(extracted) == FALSE

\* the end of the template readValueFrom: "if (ss.bad()) return false;
\* return true;" for the extraction x
Stored(x) ==
    IF bad(x) THEN [ok |-> FALSE, value |-> x.val]
    ELSE [ok |-> TRUE, value |-> x.val]

\* Parser::readValueFrom, the template (T is "int" or "double") and the
\* std::string overload (T is "string").  value is the bound value before
\* the call; the result is the return value and the bound value after it.
readValueFrom(T, arg, value) ==
    IF arg.null THEN [ok |-> FALSE, value |-> value]
    ELSE IF strlen(arg.s) = 0 THEN [ok |-> FALSE, value |-> value]
    ELSE IF T = "string" THEN [ok |-> TRUE, value |-> arg.s]
    ELSE Stored(IF T = "int" THEN ExtractInt(arg.s) ELSE ExtractDouble(arg.s))

\* ------------------------------------------------------------ EnumNameMap
\* std::map::insert: key k gets v unless k is already present
Insert(m, k, v) ==
    IF k \in DOMAIN m THEN m
    ELSE [x \in DOMAIN m \cup {k} |-> IF x = k THEN v ELSE m[x]]

\* std::map::operator[] assignment: m[k] = v
Assign(m, k, v) == [x \in DOMAIN m \cup {k} |-> IF x = k THEN v ELSE m[x]]

\* std::map<E, std::string>(initializer_list): pairs are inserted in order
\* and a pair whose key is already present is dropped.
RECURSIVE valToNameOf(_, _)
valToNameOf(vals, n) ==
    IF n = 0 THEN << >>
    ELSE Insert(valToNameOf(vals, n - 1), vals[n][1], vals[n][2])

\* the largest key of a non-empty set of keys
MaxOf(keys) == CHOOSE k \in keys : \A j \in keys : j <= k

\* Map::Map's loop: the pairs of valToName are visited by increasing key and
\* each does nameToVal[name] = value (a later key overwrites an equal name)
RECURSIVE nameToValOf(_, _)
nameToValOf(v2n, keys) ==
    IF keys = {} THEN << >>
    ELSE Assign(nameToValOf(v2n, keys \ {MaxOf(keys)}),
                v2n[MaxOf(keys)], MaxOf(keys))

\* a constructor that leaves nameToVal empty
MapFromNoNames(v2n) == [valToName |-> v2n, nameToVal |-> << >>]

MapFrom(v2n) ==
    [valToName |-> v2n, nameToVal |-> nameToValOf(v2n, DOMAIN v2n)]

\* EnumNameMap::Map<E>::Map
Map(vals) == MapFrom(valToNameOf(vals, Len(vals)))

\* an empty sentinel
UnknownStrEmpty == << >>

\* EnumNameMap::UnknownStr
UnknownStr == <<"<", "u", "n", "k", "n", "o", "w", "n", ">">>

\* Map::Name
Name(m, val) ==
    IF val \in DOMAIN m.valToName THEN m.valToName[val] ELSE UnknownStr

\* Map::Val (E{} is the enumerator 0)
Val(m, name) ==
    IF name \in DOMAIN m.nameToVal
    THEN [val |-> m.nameToVal[name], found |-> TRUE]
    ELSE [val |-> 0, found |-> FALSE]

\* Map::Size
Size(m) == Cardinality(DOMAIN m.valToName)

\* enum class Mode { summary, trace } and its name map
ModeNames ==
    Map(<< <<0, <<"s", "u", "m", "m", "a", "r", "y">>>>,
           <<1, <<"t", "r", "a", "c", "e">>>> >>)

\* ------------------------------------------------------------ declarations
\* The parser classes: Parser and ParserStrict declare the options of the
\* header's usage example, Options is the parser of raster2vector, Lists is
\* a Parser that instantiates the list and enum templates.
Classes == {"Parser", "ParserStrict", "Options", "Lists"}

Opt(id, kind, T, s, l, def, min) ==
    [id |-> id, kind |-> kind, T |-> T, shortName |-> s, longName |-> l,
     def |-> def, min |-> min, hideDefaultVal |-> FALSE]

\* the Enum constructor that takes its default as Hide(def): Hidden<T>
Hide(o) == [o EXCEPT !.hideDefaultVal = TRUE]

\* The options of the usage example, in declaration order.
ExampleOptions == <<
    Opt("verbose", "Option", "bool", Ptr(<<"-", "v">>), NullPtr, 0, 0),
    Opt("count", "Value", "int", Ptr(<<"-", "c">>),
        Ptr(<<"-", "-", "c", "o", "u", "n", "t">>), 0, 0),
    Opt("height", "EqValue", "int", Ptr(<<"-", "h">>),
        Ptr(<<"-", "-", "h", "e", "i", "g", "h", "t">>), 4, 0),
    Opt("name", "Value", "string", Ptr(<<"-", "n">>),
        Ptr(<<"-", "-", "n", "a", "m", "e">>), << >>, 0),
    Opt("files", "ValueList", "string", Ptr(<<"-", "f">>),
        Ptr(<<"-", "-", "f", "i", "l", "e", "s">>), << >>, 1),
    Opt("dim", "ValueList", "int", NullPtr,
        Ptr(<<"-", "-", "d", "i", "m">>), <<7, 8>>, 1),
    Opt("mode", "Enum", "Mode", Ptr(<<"-", "m">>),
        Ptr(<<"-", "-", "m", "o", "d", "e">>), 0, 0) >>

\* struct Options of raster2vector, in declaration order (doubles in
\* hundredths: 10.0 and 0.01).
Options == <<
    Opt("inputFile", "Value", "string", Ptr(<<"-", "i">>),
        Ptr(<<"-", "-", "i", "n", "p", "u", "t", "F", "i", "l", "e">>), << >>, 0),
    Opt("outputFile", "Value", "string", Ptr(<<"-", "o">>),
        Ptr(<<"-", "-", "o", "u", "t", "p", "u", "t", "F", "i", "l", "e">>), << >>, 0),
    Opt("scale", "Value", "double", Ptr(<<"-", "s">>),
        Ptr(<<"-", "-", "s", "c", "a", "l", "e">>), 1000, 0),
    Opt("strokeWidth", "Value", "double", Ptr(<<"-", "w">>),
        Ptr(<<"-", "-", "s", "t", "r", "o", "k", "e", "W", "i", "d", "t", "h">>), 1, 0),
    Opt("help", "Option", "bool", Ptr(<<"-", "h">>),
        Ptr(<<"-", "-", "h", "e", "l", "p">>), 0, 0) >>

\* A Parser with ValueList<int> dim (as in the usage example),
\* ValueList<int, 0> any, EnumList<Mode> modes, EnumList<Mode, 0> opt,
\* Enum<Mode> mode and Enum<Mode> level declared with Hide(Mode::summary),
\* in declaration order.
ListOptions == <<
    Opt("dim", "ValueList", "int", NullPtr,
        Ptr(<<"-", "-", "d", "i", "m">>), <<7, 8>>, 1),
    Opt("any", "ValueList", "int", Ptr(<<"-", "a">>), NullPtr, <<9>>, 0),
    Opt("modes", "EnumList", "Mode", Ptr(<<"-", "e">>),
        Ptr(<<"-", "-", "m", "o", "d", "e", "s">>), <<1>>, 1),
    Opt("opt", "EnumList", "Mode", Ptr(<<"-", "o">>), NullPtr, <<0>>, 0),
    Opt("mode", "Enum", "Mode", Ptr(<<"-", "m">>),
        Ptr(<<"-", "-", "m", "o", "d", "e">>), 0, 0),
    Hide(Opt("level", "Enum", "Mode", Ptr(<<"-", "l">>), NullPtr, 0, 0)) >>

Decl(c) ==
    IF c = "Options" THEN Options
    ELSE IF c = "Lists" THEN ListOptions
    ELSE ExampleOptions

OptIds(c) == {Decl(c)[i].id : i \in 1..Len(Decl(c))}

\* the declaration of option id among decl
DeclOf(decl, id) == decl[CHOOSE i \in 1..Len(decl) : decl[i].id = id]

\* the members of every class, by id
Members == [c \in Classes |-> [id \in OptIds(c) |-> DeclOf(Decl(c), id)]]

\* the declaration of option id of class c
OptOf(c, id) == Members[c][id]

\* --------------------------------------------------------------- registry
\* the non-null names of declaration o
NamesOf(o) ==
    (IF o.shortName.null THEN {} ELSE {o.shortName.s})
    \cup (IF o.longName.null THEN {} ELSE {o.longName.s})

\* a constructor that leaves a name with the option that holds it
ConstructKeep(is, o) ==
    [list |-> Append(is.list, o.id),
     map |-> [k \in DOMAIN is.map \cup NamesOf(o) |->
                 IF k \in DOMAIN is.map THEN is.map[k] ELSE o.id]]

\* IOpt::IOpt for declaration o: push_back on is.list, then
\* is.map[shortName] = this and is.map[longName] = this for non-null names
Construct(is, o) ==
    [list |-> Append(is.list, o.id),
     map |-> [k \in DOMAIN is.map \cup NamesOf(o) |->
                 IF k \in NamesOf(o) THEN o.id ELSE is.map[k]]]

\* the constructors of the first n declarations, run in declaration order
RECURSIVE Register(_, _)
Register(decl, n) ==
    IF n = 0 THEN [list |-> << >>, map |-> << >>]
    ELSE Construct(Register(decl, n - 1), decl[n])

\* argMap as it stands once the parser object is constructed
argMap(c) == Register(Decl(c), Len(Decl(c)))

\* is.map.find(arg): the option's id, or "nullptr"
Find(map, arg) == IF arg \in DOMAIN map THEN map[arg] ELSE "nullptr"

\* the member "is" of a constructed object of every class
Registry == [c \in Classes |-> argMap(c)]

\* Parser::Lookup
Lookup(c, arg) == Find(Registry[c].map, arg)

\* ------------------------------------------------------------------ state
VARIABLES
    cls,         \* the class of the parser object
    m_valid,     \* Parser::m_valid
    args,        \* argMap::args, read through Parser::otherArgs
    specified,   \* IOpt::specified of every declared option
    value,       \* value (or values) of every declared option
    argv,        \* the argv of the Parse call in progress or last made
    cursor,      \* Parse's local argv pointer, as an index into argv
    pOpt,        \* Parse's local pOpt
    eqFormValue, \* Parse's local eqFormValue
    pc,          \* where the Parse call stands; "ready" outside Parse
    ret,         \* what the last Parse call returned ("none" before any)
    calls,       \* number of Parse calls made so far
    entry,       \* history: the parser's data when the last call was made
    looked,      \* history: indices of the tokens this call looked up
    consumed,    \* history: results of the Consume calls of this call
    hook,        \* history: results of the Validate calls of this call
    vals,        \* the initializer list a name map is built from
    enumMap,     \* an EnumNameMap::Map object
    lookup,      \* history: the last call on enumMap (op "none" before its
                 \* constructor, then "Map", "Name" or "Val"), its result
    reg,         \* an argMap that options are being registered with
    decls,       \* history: the declarations registered with reg, in order
    main,        \* main of raster2vector: where it stands (pc "Parse" up to
                 \* the return of g_opts.Parse, then "return" or "convert"),
                 \* whether it showed the help, its exit status (-1: none)
    width,       \* RasterImage::width
    height,      \* RasterImage::height
    channels,    \* RasterImage::channels
    access       \* history: the last call on the image and its result

\* the variables of the parser on their own
parserVars == <<cls, m_valid, args, specified, value, argv, cursor, pOpt,
                eqFormValue, pc, ret, calls, entry, looked, consumed, hook>>

\* the variables of an image on its own
imgVars == <<width, height, channels, access>>

\* the variables of a name map, of a registry and of an image on their own,
\* and main's
libVars == <<vals, enumMap, lookup, reg, decls, main, imgVars>>

vars == <<parserVars, libVars>>

\* the parser's data, as the embedding program can read it
Data == [m_valid |-> m_valid, args |-> args, specified |-> specified,
         value |-> value]

\* *p for p = argv + (i - 1): slot Len(argv) + 1 holds the terminating null
At(i) == IF i <= Len(argv) THEN Ptr(argv[i]) ELSE NullPtr

\* ---------------------------------------------------------------- Consume
\* IOpt::Consume, inherited by Option
ConsumeOption(o, cur, eq, val) == [ok |-> TRUE, cursor |-> cur, value |-> val]

\* the result of a Consume that leaves the cursor at cur after the call r
\* of readValueFrom on the option's value
Consumed(r, cur) == [ok |-> r.ok, cursor |-> cur, value |-> r.value]

\* a Value that reads its token without moving past it
ConsumeValueStay(o, cur, eq, val) ==
    IF ~eq.null THEN [ok |-> FALSE, cursor |-> cur, value |-> val]
    ELSE Consumed(readValueFrom(o.T, At(cur), val), cur)

\* Value<T>::Consume
ConsumeValue(o, cur, eq, val) ==
    IF ~eq.null THEN [ok |-> FALSE, cursor |-> cur, value |-> val]
    ELSE Consumed(readValueFrom(o.T, At(cur), val), cur + 1)

\* an EqValue that moves past the token after its own
ConsumeEqValueAdvance(o, cur, eq, val) ==
    Consumed(readValueFrom(o.T, eq, val), cur + 1)

\* EqValue<T>::Consume
ConsumeEqValue(o, cur, eq, val) == Consumed(readValueFrom(o.T, eq, val), cur)

\* a loop that takes one token, whatever it begins with
RunEndFirst(i) == IF ~At(i).null THEN i + 1 ELSE i

\* the loop "while (*argv && (*argv)[0] != '-') ++argv" started at i
RECURSIVE RunEnd(_)
RunEnd(i) ==
    IF ~At(i).null /\ (At(i).s = << >> \/ At(i).s[1] # "-")
    THEN RunEnd(i + 1) ELSE i

\* T()
DefaultOf(T) == IF T = "string" THEN << >> ELSE 0

\* ValueList's loop over [argvStart, argv): readValueFrom into values[i],
\* stopping at the first failure; values was resized to count beforehand.
\* ReadInto is the loop body for the call r of readValueFrom on values[k].
RECURSIVE ReadList(_, _, _, _)
ReadInto(T, i, end, values, k, r) ==
    IF ~r.ok THEN [ok |-> FALSE, values |-> [values EXCEPT ![k] = r.value]]
    ELSE ReadList(T, i + 1, end, [values EXCEPT ![k] = r.value])

ReadList(T, i, end, values) ==
    IF i >= end THEN [ok |-> TRUE, values |-> values]
    ELSE ReadInto(T, i, end, values, Len(values) - (end - i) + 1,
                  readValueFrom(T, At(i), values[Len(values) - (end - i) + 1]))

\* the result of a list Consume whose loop returned r
ListResult(r, end) == [ok |-> r.ok, cursor |-> end, value |-> r.values]

\* a ValueList that clears its values before the count test
ConsumeRunClear(o, cur, end, val) ==
    IF end - cur < o.min THEN [ok |-> FALSE, cursor |-> end, value |-> << >>]
    ELSE ListResult(ReadList(o.T, cur, end,
                             [k \in 1..(end - cur) |-> DefaultOf(o.T)]), end)

\* ValueList::Consume once argv stands at end: the count test, clear,
\* resize and the loop
ConsumeRun(o, cur, end, val) ==
    IF end - cur < o.min THEN [ok |-> FALSE, cursor |-> end, value |-> val]
    ELSE ListResult(ReadList(o.T, cur, end,
                             [k \in 1..(end - cur) |-> DefaultOf(o.T)]), end)

\* ValueList<T, min>::Consume
ConsumeValueList(o, cur, eq, val) ==
    IF ~eq.null THEN [ok |-> FALSE, cursor |-> cur, value |-> val]
    ELSE ConsumeRun(o, cur, RunEnd(cur), val)

\* the name map an Enum or EnumList option is bound to
nameMap(o) == ModeNames

\* an Enum that finds the name and keeps its old value
EnumFoundKeep(cur, val, result) ==
    [ok |-> result.found, cursor |-> cur + 1, value |-> val]

\* Enum::Consume after nameMap.Val returned result
EnumFound(cur, val, result) ==
    IF ~result.found THEN [ok |-> FALSE, cursor |-> cur + 1, value |-> val]
    ELSE [ok |-> TRUE, cursor |-> cur + 1, value |-> result.val]

\* Enum::Consume after readValueFrom(arg, valName) returned r
EnumNamed(o, cur, val, r) ==
    IF ~r.ok THEN [ok |-> FALSE, cursor |-> cur + 1, value |-> val]
    ELSE EnumFound(cur, val, Val(nameMap(o), r.value))

\* Enum<T>::Consume
ConsumeEnum(o, cur, eq, val) ==
    IF ~eq.null THEN [ok |-> FALSE, cursor |-> cur, value |-> val]
    ELSE EnumNamed(o, cur, val, readValueFrom("string", At(cur), << >>))

\* EnumList's loop over [argvStart, argv): push_back of each mapped value,
\* stopping at the first token that is empty or not a name of the map.
\* PushFound and PushNamed are the loop body after Val and readValueFrom.
RECURSIVE ReadEnumList(_, _, _, _)
\* a loop body that pushes a value only when the list does not hold it yet
PushFoundOnce(o, i, end, values, result) ==
    IF ~result.found THEN [ok |-> FALSE, values |-> values]
    ELSE ReadEnumList(o, i + 1, end,
                      IF \E k \in DOMAIN values : values[k] = result.val
                      THEN values ELSE Append(values, result.val))

PushFound(o, i, end, values, result) ==
    IF ~result.found THEN [ok |-> FALSE, values |-> values]
    ELSE ReadEnumList(o, i + 1, end, Append(values, result.val))

PushNamed(o, i, end, values, r) ==
    IF ~r.ok THEN [ok |-> FALSE, values |-> values]
    ELSE PushFound(o, i, end, values, Val(nameMap(o), r.value))

ReadEnumList(o, i, end, values) ==
    IF i >= end THEN [ok |-> TRUE, values |-> values]
    ELSE PushNamed(o, i, end, values,
                   readValueFrom("string", At(i), << >>))

\* an EnumList that wants more than min tokens
ConsumeEnumRunStrict(o, cur, end, val) ==
    IF end - cur <= o.min THEN [ok |-> FALSE, cursor |-> end, value |-> val]
    ELSE ListResult(ReadEnumList(o, cur, end, << >>), end)

\* EnumList::Consume once argv stands at end
ConsumeEnumRun(o, cur, end, val) ==
    IF end - cur < o.min THEN [ok |-> FALSE, cursor |-> end, value |-> val]
    ELSE ListResult(ReadEnumList(o, cur, end, << >>), end)

\* EnumList<T, min>::Consume
ConsumeEnumList(o, cur, eq, val) == ConsumeEnumRun(o, cur, RunEnd(cur), val)

\* the virtual call pOpt->Consume(argv, eqFormValue)
Consume(o, cur, eq, val) ==
    CASE o.kind = "Option"    -> ConsumeOption(o, cur, eq, val)
      [] o.kind = "Value"     -> ConsumeValue(o, cur, eq, val)
      [] o.kind = "EqValue"   -> ConsumeEqValue(o, cur, eq, val)
      [] o.kind = "ValueList" -> ConsumeValueList(o, cur, eq, val)
      [] o.kind = "Enum"      -> ConsumeEnum(o, cur, eq, val)
      [] o.kind = "EnumList"  -> ConsumeEnumList(o, cur, eq, val)

\* ------------------------------------------------------------------- help
\* the literals of Enum::HelpSuffix
DefaultIs == <<"D", "e", "f", "a", "u", "l", "t", " ", "i", "s", " ">>
Choices == <<"C", "h", "o", "i", "c", "e", "s", ":">>

\* Enum::HelpSuffix of option o holding val
HelpSuffix(o, val) ==
    IF o.hideDefaultVal THEN Choices
    ELSE DefaultIs \o Name(nameMap(o), val) \o <<".", " ">> \o Choices

\* the loop of Enum::ExtraHelp over the entries keys of valToName, in
\* key order: an entry is left out when hide is set and its value is val
RECURSIVE NameList(_, _, _, _)
NameList(v2n, keys, hide, val) ==
    IF keys = {} THEN << >>
    ELSE IF hide /\ MaxOf(keys) = val
    THEN NameList(v2n, keys \ {MaxOf(keys)}, hide, val)
    ELSE Append(NameList(v2n, keys \ {MaxOf(keys)}, hide, val),
                v2n[MaxOf(keys)])

\* Enum::ExtraHelp of option o holding val
ExtraHelp(o, val) ==
    NameList(nameMap(o).valToName, DOMAIN nameMap(o).valToName,
             o.hideDefaultVal, val)

\* --------------------------------------------------------------- Validate
RECURSIVE LastIndexOf(_, _, _)
LastIndexOf(str, c, i) ==
    IF i = 0 THEN 0
    ELSE IF str[i] = c THEN i
    ELSE LastIndexOf(str, c, i - 1)

\* the path with the extension that starts at the filename's index dot
\* replaced by ".svg"; there is no extension when the filename has no '.',
\* when its only '.' is its first character, or when it is ".."
ReplaceDot(str, slash, filename, dot) ==
    (IF dot > 1 /\ filename # <<".", ".">>
     THEN SubSeq(str, 1, slash + dot - 1) ELSE str) \o <<".", "s", "v", "g">>

ReplaceIn(str, slash, filename) ==
    ReplaceDot(str, slash, filename,
               LastIndexOf(filename, ".", Len(filename)))

ReplaceAfter(str, slash) ==
    ReplaceIn(str, slash, SubSeq(str, slash + 1, Len(str)))

\* std::filesystem::path(str).replace_extension("svg").string(); the
\* filename is the part after the last '/'
replace_extension(str) == ReplaceAfter(str, LastIndexOf(str, "/", Len(str)))

\* Parser::Validate
ValidateParser == [ok |-> TRUE, specified |-> specified, value |-> value]

\* ParserStrict::Validate
ValidateStrict ==
    [ok |-> args = << >>, specified |-> specified, value |-> value]

\* Options::Validate from "if (scale <= 0.0)" on, with flags sp, values v
CheckRanges(sp, v) ==
    IF v["scale"] <= 0 THEN [ok |-> FALSE, specified |-> sp, value |-> v]
    ELSE IF v["strokeWidth"] < 0
    THEN [ok |-> FALSE, specified |-> sp, value |-> v]
    ELSE [ok |-> TRUE, specified |-> sp, value |-> v]

\* Options::Validate from "if (!outputFile.specified)" on
DeriveOutput(sp, v) ==
    CheckRanges(sp, IF ~sp["outputFile"]
                    THEN [v EXCEPT !["outputFile"] =
                                      replace_extension(v["inputFile"])]
                    ELSE v)

\* Options::Validate of raster2vector
ValidateOptions ==
    IF ~specified["inputFile"] /\ Len(args) = 1
    THEN DeriveOutput([specified EXCEPT !["inputFile"] = TRUE],
                      [value EXCEPT !["inputFile"] = args[1]])
    ELSE IF ~specified["inputFile"]
    THEN [ok |-> FALSE, specified |-> specified, value |-> value]
    ELSE IF Len(args) # 0
    THEN [ok |-> FALSE, specified |-> specified, value |-> value]
    ELSE DeriveOutput(specified, value)

\* the virtual call Validate()
Validate ==
    CASE cls \in {"Parser", "Lists"} -> ValidateParser
      [] cls = "ParserStrict" -> ValidateStrict
      [] cls = "Options"      -> ValidateOptions

\* ----------------------------------------------------------------- inputs
\* argv[0]
Prog == <<"p", "r", "o", "g">>

\* the tokens the first Parse call draws from
Tokens(c) ==
    IF c = "Options"
    THEN {<<"-", "i">>, <<"-", "o">>, <<"-", "s">>, <<"-", "h">>,
          <<"-", "-", "h", "e", "l", "p">>, <<"-", "h", "=", "1">>,
          <<"a", ".", "p">>, <<"5">>, <<"-", "1">>, <<>>,
          <<"x", "=", "y">>}
    ELSE IF c = "Lists"
    THEN {<<"-", "-", "d", "i", "m">>, <<"-", "a">>, <<"-", "e">>,
          <<"-", "o">>, <<"-", "m">>, <<"5">>, <<"x">>, <<>>,
          <<"s", "u", "m", "m", "a", "r", "y">>,
          <<"t", "r", "a", "c", "e">>,
          <<"-", "-", "d", "i", "m", "=", "5">>, <<"-", "l">>,
          <<"-", "e", "=", "x">>, <<"-", "m", "=", "t", "r", "a", "c", "e">>}
    ELSE IF c = "ParserStrict"
    THEN {<<"-", "v">>, <<"-", "c">>, <<"-", "c", "=", "5">>,
          <<"-", "-", "d", "i", "m">>, <<"5">>, <<"5", "x">>, <<"x">>,
          <<"a", "=", "b">>, <<"-", "c", "=", "5", "=", "6">>,
          <<"-", "-", "d", "i">>, <<"-", "c", "c">>}
    ELSE {<<"-", "v">>, <<"-", "v", "=", "1">>, <<"-", "c">>,
          <<"-", "c", "=", "5">>, <<"-", "h">>, <<"-", "h", "=", "5">>,
          <<"-", "h", "=">>, <<"-", "h", "=", "x">>, <<"5">>,
          <<"5", "x">>, <<"x">>, <<>>, <<"a", "=", "b">>}

\* the tokens a repeated Parse call draws from
ReTokens(c) ==
    IF c = "Options"
    THEN {<<"a", ".", "p">>, <<"-", "s">>}
    ELSE IF c = "Lists"
    THEN {<<"-", "a">>, <<"5">>}
    ELSE {<<"-", "v">>, <<"-", "c", "=", "5">>}

\* every argv of at most n tokens of T after argv[0]
ArgvSet(T, n) ==
    {<<Prog>> \o t : t \in UNION {[1..k -> T] : k \in 0..n}}

\* ------------------------------------------------------------------- Init
\* A constructed parser object: every option holds its declared default
\* and has not been specified, nothing is positional, m_valid is false.
Constructed(c) ==
    /\ cls = c
    /\ m_valid = FALSE
    /\ args = << >>
    /\ specified = [id \in OptIds(cls) |-> FALSE]
    /\ value = [id \in OptIds(cls) |-> OptOf(cls, id).def]
    /\ argv = <<Prog>>
    /\ cursor = 1
    /\ pOpt = "nullptr"
    /\ eqFormValue = NullPtr
    /\ pc = "ready"
    /\ ret = "none"
    /\ calls = 0
    /\ entry = [m_valid |-> FALSE, args |-> << >>,
                specified |-> [id \in OptIds(cls) |-> FALSE],
                value |-> [id \in OptIds(cls) |-> OptOf(cls, id).def]]
    /\ looked = << >>
    /\ consumed = << >>
    /\ hook = << >>

\* no call was made on a name map
NoLookup == [op |-> "none", key |-> 0, result |-> 0]

\* no name map is being built
MapIdle == vals = << >> /\ enumMap = MapFrom(<< >>) /\ lookup = NoLookup

\* argMap's default constructor
EmptyArgMap == [list |-> << >>, map |-> << >>]

\* no option is being registered
RegIdle == reg = EmptyArgMap /\ decls = << >>

\* main stands at its call of g_opts.Parse
MainIdle == main = [pc |-> "Parse", helpShown |-> FALSE, status |-> -1]

\* no call was made on an image
NoAccess == [op |-> "none", row |-> 0, col |-> 0, result |-> 0]

\* RasterImage() = default: width{}, height{}, channels{} and a null img
ImgIdle == width = 0 /\ height = 0 /\ channels = 0 /\ access = NoAccess

Init ==
    /\ \E c \in Classes : Constructed(c)
    /\ MapIdle /\ RegIdle /\ MainIdle /\ ImgIdle

\* ------------------------------------------------------------------ Parse
\* a Parse that never refuses to run again
AlreadyParsedNever == FALSE

\* a Parse that refuses to run again after any earlier call
AlreadyParsedTerminal == m_valid \/ calls > 0

\* Parse's test of m_valid on entry
AlreadyParsed == m_valid

\* Parse is called with argv a: the m_valid test and "++argv"
ParseCall(a) ==
    /\ pc = "ready"
    /\ main.pc = "Parse"
    /\ calls < MaxCalls
    /\ calls' = calls + 1
    /\ argv' = a
    /\ entry' = Data
    /\ looked' = << >>
    /\ consumed' = << >>
    /\ hook' = << >>
    /\ pOpt' = "nullptr"
    /\ eqFormValue' = NullPtr
    /\ IF AlreadyParsed
       THEN /\ ret' = "false"
            /\ pc' = "ready"
            /\ cursor' = 1
       ELSE /\ ret' = "none"
            /\ pc' = "loop"
            /\ cursor' = 2
    /\ UNCHANGED <<cls, m_valid, args, specified, value, libVars>>

\* a Parse that looks tokens up whole
SplitAtNever(str, eq) == [arg |-> str, eqFormValue |-> NullPtr]

\* the split of str at eq, the index of its first '=' (0 without one)
SplitAt(str, eq) ==
    IF eq > 0
    THEN [arg |-> SubSeq(str, 1, eq - 1),
          eqFormValue |-> Ptr(SubSeq(str, eq + 1, Len(str)))]
    ELSE [arg |-> str, eqFormValue |-> NullPtr]

\* "if (auto eq = strchr(arg, '='))": arg and eqFormValue for token str
SplitArg(str) == SplitAt(str, strchr(str, "="))

\* what is.args.push_back(arg) appends for token str split as sp
Pushed(str, sp) == sp.arg

\* a Parse that leaves the flag of a matched option alone
MarkSpecifiedNever(sp, o) == sp

\* "pOpt->specified = true" on the flags sp
MarkSpecified(sp, o) == [sp EXCEPT ![o] = TRUE]

\* "++argv", then push_back for pOpt == nullptr or pOpt->specified = true,
\* for the token split as sp and looked up as o
Dispatch(sp, o) ==
    /\ cursor' = cursor + 1
    /\ looked' = Append(looked, cursor)
    /\ pOpt' = o
    /\ eqFormValue' = sp.eqFormValue
    /\ IF o = "nullptr"
       THEN /\ args' = Append(args, Pushed(At(cursor).s, sp))
            /\ pc' = "loop"
            /\ UNCHANGED specified
       ELSE /\ specified' = MarkSpecified(specified, o)
            /\ pc' = "consume"
            /\ UNCHANGED args

\* "auto pOpt = Lookup(arg)" for the token split as sp
LookedUp(sp) == Dispatch(sp, Lookup(cls, sp.arg))

\* One test of the while condition and, for a token, the loop body up to
\* the call of Consume: split, Lookup, ++argv, then either push_back or
\* pOpt->specified = true.
ParseLoop ==
    /\ pc = "loop"
    /\ IF At(cursor).null
       THEN /\ pc' = "validate"
            /\ UNCHANGED <<args, specified, cursor, pOpt, eqFormValue, looked>>
       ELSE LookedUp(SplitArg(At(cursor).s))
    /\ UNCHANGED <<cls, m_valid, value, argv, ret, calls, entry, consumed, hook,
                   libVars>>

\* a Parse that goes on after a failed Consume
ParseStopsNever(success) == FALSE

\* "if (!success)": whether Parse returns false on Consume's result
ParseStops(success) == ~success

\* the statements after the call r of Consume
AfterConsume(r) ==
    /\ value' = [value EXCEPT ![pOpt] = r.value]
    /\ cursor' = r.cursor
    /\ consumed' = Append(consumed, [opt |-> pOpt, ok |-> r.ok])
    /\ IF ParseStops(r.ok)
       THEN /\ m_valid' = FALSE
            /\ ret' = "false"
            /\ pc' = "ready"
       ELSE /\ pc' = "loop"
            /\ UNCHANGED <<m_valid, ret>>

\* the call of Consume and the test of its result
ParseConsume ==
    /\ pc = "consume"
    /\ AfterConsume(Consume(OptOf(cls, pOpt), cursor, eqFormValue,
                            value[pOpt]))
    /\ UNCHANGED <<cls, args, specified, argv, pOpt, eqFormValue, calls,
                   entry, looked, hook, libVars>>

\* "m_valid = Validate(); return m_valid;" for the call v of Validate
AfterValidate(v) ==
    /\ m_valid' = v.ok
    /\ specified' = v.specified
    /\ value' = v.value
    /\ hook' = Append(hook, v.ok)
    /\ ret' = IF v.ok THEN "true" ELSE "false"

\* the call of Validate once the loop has ended
ParseValidate ==
    /\ pc = "validate"
    /\ AfterValidate(Validate)
    /\ pc' = "ready"
    /\ UNCHANGED <<cls, args, argv, cursor, pOpt, eqFormValue, calls, entry,
                   looked, consumed, libVars>>

\* ------------------------------------------------------------------- main
\* a main that reports failure whenever it shows the help
ExitStatusFailure(help) == 1

\* "return g_opts.help ? 0 : 1;"
ExitStatus(help) == IF help THEN 0 ELSE 1

\* main of raster2vector once g_opts.Parse(argv) has returned parsed, up to
\* its first return: "if (!g_opts.Parse(argv) || g_opts.help)" it shows
\* the help and returns, else it goes on to the conversion. g_opts.help
\* converts to bool as help.specified.
MainBranch(parsed, help) ==
    main' = IF ~parsed \/ help
            THEN [pc |-> "return", helpShown |-> TRUE,
                  status |-> ExitStatus(help)]
            ELSE [pc |-> "convert", helpShown |-> FALSE, status |-> -1]

\* main calls Parse once, on the global Options object g_opts
Main ==
    /\ cls = "Options"
    /\ main.pc = "Parse" /\ pc = "ready" /\ calls = 1
    /\ MainBranch(ret = "true", specified["help"])
    /\ UNCHANGED <<parserVars, vals, enumMap, lookup, reg, decls, imgVars>>

Next ==
    \/ \E a \in ArgvSet(IF calls = 0 THEN Tokens(cls) ELSE ReTokens(cls),
                        IF calls = 0 THEN MaxArgs ELSE MaxReArgs) :
          ParseCall(a)
    \/ ParseLoop
    \/ ParseConsume
    \/ ParseValidate
    \/ Main

Spec == Init /\ [][Next]_vars

\* ------------------------------------------------- a name map on its own
\* the enumerators and names the pairs of an initializer list draw from
EnumVals == 0..2
EnumNames == {<<"a">>, <<"b">>, <<"c">>}

\* every initializer list of at most n (value, name) pairs
PairLists(n) == UNION {[1..k -> EnumVals \X EnumNames] : k \in 0..n}

\* An initializer list has been written; no map is built from it yet.
InitMap ==
    /\ Constructed("Parser") /\ RegIdle /\ MainIdle /\ ImgIdle
    /\ vals \in PairLists(MaxPairs)
    /\ enumMap = MapFrom(<< >>)
    /\ lookup = NoLookup

\* Map::Map(std::initializer_list) on vals
MapCtor ==
    /\ lookup.op = "none"
    /\ enumMap' = Map(vals)
    /\ lookup' = [op |-> "Map", key |-> 0, result |-> 0]
    /\ UNCHANGED <<parserVars, vals, reg, decls, main, imgVars>>

\* a call of Map::Name, a const member
CallName(val) ==
    /\ lookup.op # "none"
    /\ lookup' = [op |-> "Name", key |-> val, result |-> Name(enumMap, val)]
    /\ UNCHANGED <<parserVars, vals, enumMap, reg, decls, main, imgVars>>

\* a call of Map::Val, a const member
CallVal(name) ==
    /\ lookup.op # "none"
    /\ lookup' = [op |-> "Val", key |-> name, result |-> Val(enumMap, name)]
    /\ UNCHANGED <<parserVars, vals, enumMap, reg, decls, main, imgVars>>

NextMap ==
    \/ MapCtor
    \/ \E val \in EnumVals \cup {3} : CallName(val)
    \/ \E name \in EnumNames \cup {<<"z">>} : CallVal(name)

SpecMap == InitMap /\ [][NextMap]_vars

\* ------------------------------------------------- a registry on its own
\* the names an option may declare; each of them may be null
OptNames == {NullPtr, Ptr(<<"-", "a">>), Ptr(<<"-", "b">>)}

\* An empty argMap, before any option is constructed on it.
InitReg ==
    Constructed("Parser") /\ MapIdle /\ RegIdle /\ MainIdle /\ ImgIdle

\* the declaration of a Option with names s and l, constructed n-th
NthOption(n, s, l) == Opt(n, "Option", "bool", s, l, 0, 0)

\* IOpt::IOpt(is, shortName, longName, helpText) of one more option
NewOption(s, l) ==
    /\ Len(decls) < MaxOptions
    /\ reg' = Construct(reg, NthOption(Len(decls) + 1, s, l))
    /\ decls' = Append(decls, NthOption(Len(decls) + 1, s, l))
    /\ UNCHANGED <<parserVars, vals, enumMap, lookup, main, imgVars>>

NextReg == \E s \in OptNames, l \in OptNames : NewOption(s, l)

SpecReg == InitReg /\ [][NextReg]_vars

\* -------------------------------------------------- an image on its own
\* the largest width and height of an image
MaxDim == 2

\* the channel counts of an image: gray, gray and alpha, RGB, RGBA
ChannelCounts == 1..4

\* the row and col arguments of a call
Coords == (0 - 2)..(MaxDim + 1)

\* RasterImage::SizeInBytes, the size of the buffer img
SizeInBytes == width * height * channels

\* the conditional of ClampRow and ClampCol on a size
ClampTo(i, size) == IF i < 0 THEN 0 ELSE IF i >= size THEN size - 1 ELSE i

\* RasterImage::ClampRow
ClampRow(row) == ClampTo(row, height)

\* RasterImage::ClampCol
ClampCol(col) == ClampTo(col, width)

\* RasterImage::Pixel: the offset into img of the pointer it returns
Pixel(row, col) == (row * width + col) * channels

\* RasterImage::PixelClamped
PixelClamped(row, col) == Pixel(ClampRow(row), ClampCol(col))

\* A default-constructed image.
InitImage ==
    Constructed("Parser") /\ MapIdle /\ RegIdle /\ MainIdle /\ ImgIdle

\* RasterImage::Create, through RasterImage(width_, height_, channels_)
Create(width_, height_, channels_) ==
    /\ width' = width_
    /\ height' = height_
    /\ channels' = channels_
    /\ access' = NoAccess
    /\ UNCHANGED <<parserVars, vals, enumMap, lookup, reg, decls, main>>

\* a call of ClampRow, a const member
CallClampRow(row) ==
    /\ access' = [op |-> "ClampRow", row |-> row, col |-> 0,
                  result |-> ClampRow(row)]
    /\ UNCHANGED <<parserVars, vals, enumMap, lookup, reg, decls, main,
                   width, height, channels>>

\* a call of ClampCol, a const member
CallClampCol(col) ==
    /\ access' = [op |-> "ClampCol", row |-> 0, col |-> col,
                  result |-> ClampCol(col)]
    /\ UNCHANGED <<parserVars, vals, enumMap, lookup, reg, decls, main,
                   width, height, channels>>

\* a call of PixelClamped, which hands out a pointer into img
CallPixelClamped(row, col) ==
    /\ access' = [op |-> "PixelClamped", row |-> row, col |-> col,
                  result |-> PixelClamped(row, col)]
    /\ UNCHANGED <<parserVars, vals, enumMap, lookup, reg, decls, main,
                   width, height, channels>>

NextImage ==
    \/ \E w \in 0..MaxDim, h \in 0..MaxDim, c \in ChannelCounts :
          Create(w, h, c)
    \/ \E row \in Coords : CallClampRow(row)
    \/ \E col \in Coords : CallClampCol(col)
    \/ \E row \in Coords, col \in Coords : CallPixelClamped(row, col)

SpecImage == InitImage /\ [][NextImage]_vars

\* ================================================================= claims
\* the last Parse call has returned
Returned == pc = "ready" /\ calls > 0

\* every Consume call of this Parse call returned true
AllConsumed == \A i \in DOMAIN consumed : consumed[i].ok

\* the last Consume call of this Parse call returned false
Failed == consumed # << >> /\ ~consumed[Len(consumed)].ok

\* the text of a token before its first '=' (the whole token without one)
NamePart(str) ==
    LET cut == {i \in 1..Len(str) : str[i] = "="}
    IN  IF cut = {} THEN str
        ELSE SubSeq(str, 1, (CHOOSE i \in cut : \A j \in cut : i <= j) - 1)

\* C1: after the first Parse call on a parser, Parse returned true exactly
\* when m_valid is true, and that is exactly when every Consume call
\* returned true and Validate, called once with the cursor on the
\* terminating null, returned true.
Thm_C1 ==
    (Returned /\ calls = 1) =>
        /\ (ret = "true") <=> m_valid
        /\ m_valid <=> (AllConsumed /\ hook = <<TRUE>>)
        /\ Len(hook) <= 1
        /\ hook # << >> => (AllConsumed /\ cursor = Len(argv) + 1)

Witness_C1 ==
    /\ Returned /\ calls = 1 /\ m_valid /\ ret = "true"
    /\ Len(consumed) >= 2 /\ hook = <<TRUE>> /\ args # << >>

\* C2: a Consume call that returns false ends the Parse call in that very
\* step: Parse has returned false with m_valid false and Validate not
\* called, the last token looked up is the failing option's own, and the
\* failing step looks up nothing, appends nothing to Positional, sets no
\* flag and changes no other option's value.
Thm_C2 ==
    /\ [](Failed =>
             /\ pc = "ready" /\ ret = "false" /\ ~m_valid /\ hook = << >>
             /\ \A i \in 1..(Len(consumed) - 1) : consumed[i].ok
             /\ Lookup(cls, NamePart(argv[looked[Len(looked)]]))
                    = consumed[Len(consumed)].opt)
    /\ [][(Failed' /\ calls' = calls /\ main' = main) =>
             /\ ~Failed
             /\ looked' = looked /\ args' = args /\ specified' = specified
             /\ \A o \in OptIds(cls) \ {pOpt} : value'[o] = value[o]]_vars

Witness_C2 ==
    /\ Failed /\ pc = "ready" /\ calls = 1
    /\ Len(consumed) >= 2
    /\ looked[Len(looked)] < Len(argv)

\* C3: a Parse call made on a parser whose m_valid is true returns false
\* at once and leaves m_valid, Positional and every flag and value as they
\* were, whatever its argv.
Thm_C3 ==
    entry.m_valid =>
        /\ pc = "ready" /\ ret = "false" /\ Data = entry
        /\ looked = << >> /\ consumed = << >> /\ hook = << >>

Witness_C3 ==
    /\ calls = 2 /\ pc = "ready" /\ entry.m_valid /\ Len(argv) > 1
    /\ args # << >> /\ \E o \in OptIds(cls) : specified[o]

\* C4 as claimed: a Parse call on a parser that was parsed before, with
\* success or not, returns false and leaves the parser's data unchanged.
Orig_C4 ==
    (Returned /\ calls >= 2) => (ret = "false" /\ Data = entry)

\* C4 amended: a repeated Parse call is refused (returns false, changes
\* nothing) when the earlier call succeeded; after a failed call m_valid
\* is false, so the call runs like a first call on top of the data the
\* failed call left: it ends in a failed Consume or in Validate, its
\* result is decided as in a first call, no flag is cleared and Positional
\* only grows.
Thm_C4 ==
    calls >= 2 =>
        /\ entry.m_valid => (pc = "ready" /\ ret = "false" /\ Data = entry)
        /\ ~entry.m_valid =>
              /\ \A o \in OptIds(cls) : entry.specified[o] => specified[o]
              /\ SubSeq(args, 1, Len(entry.args)) = entry.args
              /\ Returned =>
                    /\ Failed \/ Len(hook) = 1
                    /\ (ret = "true") <=> m_valid
                    /\ m_valid <=> (AllConsumed /\ hook = <<TRUE>>)

Witness_C4 ==
    /\ Returned /\ calls = 2 /\ ~entry.m_valid
    /\ ret = "true" /\ m_valid /\ Data # entry
    /\ \E o \in OptIds(cls) : specified[o] /\ ~entry.specified[o]

\* the option the token at index i of argv is looked up as
MatchOf(i) == Lookup(cls, NamePart(argv[i]))

\* the token at index i of argv matches no registered name
Unmatched(i) == MatchOf(i) = "nullptr"

\* the whole text of the tokens of argv at the indices idx
TokensAt(idx) == [k \in DOMAIN idx |-> argv[idx[k]]]

\* the name part of the tokens of argv at the indices idx
NamesAt(idx) == [k \in DOMAIN idx |-> NamePart(argv[idx[k]])]

\* C5 as claimed: during a first Parse call, Positional holds the whole,
\* unsplit text of every token looked up so far that matches no registered
\* name, in encounter order.
Orig_C5 ==
    calls = 1 => args = TokensAt(SelectSeq(looked, Unmatched))

\* option o was matched by a top-level token of this Parse call
MatchedNow(o) == \E i \in DOMAIN looked : MatchOf(looked[i]) = o

\* the flags this Parse call has set so far
NewlySet == {o \in OptIds(cls) : specified[o] /\ ~entry.specified[o]}

\* the flag is set when the token is matched, before Consume runs, and every
\* option whose Consume ran, failed or not, keeps its flag
SetOnMatch ==
    /\ pc = "consume" =>
          /\ pOpt = MatchOf(looked[Len(looked)])
          /\ specified[pOpt]
          /\ Len(consumed) < Len(looked)
    /\ \A i \in DOMAIN consumed : specified[consumed[i].opt]
    /\ Failed => (~m_valid /\ specified[consumed[Len(consumed)].opt])

\* C6 as claimed: the flag is set on the match, before Consume, and kept
\* when Consume fails; a flag this Parse call has set belongs to an option
\* matched by one of its top-level tokens.
Orig_C6 ==
    /\ SetOnMatch
    /\ \A o \in NewlySet : MatchedNow(o)

\* C6 amended: the flag is set on the match, before Consume, and kept when
\* Consume fails; until Validate is called, a flag this Parse call has set
\* belongs to an option matched by one of its top-level tokens.  Validate
\* may set flags of its own: that of raster2vector sets inputFile's from a
\* single positional argument.
Thm_C6 ==
    /\ SetOnMatch
    /\ \A o \in NewlySet :
          \/ MatchedNow(o)
          \/ /\ hook = <<TRUE>> \/ hook = <<FALSE>>
             /\ cls = "Options" /\ o = "inputFile"
             /\ Len(args) = 1 /\ value[o] = args[1]

Witness_C6 ==
    /\ Failed /\ calls = 1 /\ Len(consumed) >= 2
    /\ specified[consumed[Len(consumed)].opt]
    /\ \E o \in OptIds(cls) : ~specified[o]

\* the declared Switch options
Switches == {o \in OptIds(cls) : OptOf(cls, o).kind = "Option"}

\* C7 as claimed: a switch's flag is false before Parse, and after Parse it
\* is true exactly when one of the switch's names is a whole token of
\* argv[1..].
Orig_C7 ==
    /\ calls = 0 => \A o \in Switches : ~specified[o]
    /\ (Returned /\ calls = 1) =>
          \A o \in Switches :
              specified[o] <=>
                  \E i \in 2..Len(argv) : argv[i] \in NamesOf(OptOf(cls, o))

\* C7 amended: a switch's flag is false before Parse, and after Parse it is
\* true exactly when a token that Parse looked up as a top-level token has
\* one of the switch's names as its name part, with or without an "=value"
\* part.  Tokens taken as values by an earlier option and tokens after a
\* failed Consume are not looked up.
Thm_C7 ==
    /\ calls = 0 => \A o \in Switches : ~specified[o]
    /\ (Returned /\ calls = 1) =>
          \A o \in Switches :
              specified[o] <=>
                  \E i \in DOMAIN looked :
                      NamePart(argv[looked[i]]) \in NamesOf(OptOf(cls, o))

Witness_C7 ==
    /\ Returned /\ calls = 1 /\ cls = "Parser" /\ ret = "true"
    /\ specified["verbose"]
    /\ \A i \in 2..Len(argv) : argv[i] # <<"-", "v">>
    /\ \E i \in DOMAIN looked : argv[looked[i]] = <<"-", "v", "=", "1">>

\* Parse stands before the Consume call of an option of kind k
AtConsume(k) == pc = "consume" /\ OptOf(cls, pOpt).kind = k

\* the Consume call of this step returned true and Parse goes on
GoesOn ==
    /\ pc' = "loop"
    /\ consumed' = Append(consumed, [opt |-> pOpt, ok |-> TRUE])
    /\ m_valid' = m_valid /\ ret' = ret

\* the Consume call of this step returned false and Parse returned false
\* with every bound value as it was
GivesUp ==
    /\ pc' = "ready" /\ ret' = "false" /\ ~m_valid'
    /\ consumed' = Append(consumed, [opt |-> pOpt, ok |-> FALSE])
    /\ value' = value

\* the value the text "5" stands for as a T
FiveAs(T) ==
    IF T = "string" THEN <<"5">> ELSE IF T = "double" THEN 500 ELSE 5

\* C8: when Parse calls the Consume of a Scalar option, the flag is set.
\* Without an inline value and with a non-empty next token, Consume
\* succeeds, binds the option's value to that token read as T (the text
\* itself for a string, 5 for the token "5") and moves the cursor past
\* that one token.  With an inline value the parse fails, no bound value
\* changes and the cursor stays where it was.
Thm_C8 ==
    [][AtConsume("Value") =>
          /\ specified[pOpt] /\ specified' = specified
          /\ (eqFormValue.null /\ ~At(cursor).null /\ At(cursor).s # << >>) =>
                /\ GoesOn
                /\ cursor' = cursor + 1
                /\ OptOf(cls, pOpt).T = "string" =>
                      value'[pOpt] = argv[cursor]
                /\ argv[cursor] = <<"5">> =>
                      value'[pOpt] = FiveAs(OptOf(cls, pOpt).T)
                /\ \A o \in OptIds(cls) \ {pOpt} : value'[o] = value[o]
          /\ ~eqFormValue.null =>
                /\ GivesUp
                /\ cursor' = cursor /\ looked' = looked /\ args' = args]_vars

Witness_C8 ==
    /\ Returned /\ calls = 1 /\ cls = "Parser" /\ ret = "true"
    /\ argv = <<Prog, <<"-", "c">>, <<"5">>, <<"x">>>>
    /\ specified["count"] /\ value["count"] = 5
    /\ looked = <<2, 4>> /\ args = <<<<"x">>>>

\* str is a T literal, whole: an optional sign, then digits, for a double
\* with at most one decimal point among them
IsLiteralBody(T, body) ==
    /\ \E i \in DOMAIN body : body[i] \in Digits
    /\ \A i \in DOMAIN body : body[i] \in Digits \/ (T = "double" /\ body[i] = ".")
    /\ Cardinality({i \in DOMAIN body : body[i] = "."}) <= 1

IsLiteral(T, str) ==
    /\ str # << >>
    /\ IsLiteralBody(T, IF str[1] \in {"-", "+"} THEN Tail(str) ELSE str)

\* the value tokens the Consume call that Parse stands before reads: the
\* inline value of an EqValue, the next token of a Value, the run of
\* tokens up to the next one starting with '-' of a ValueList
ValueTokens ==
    CASE OptOf(cls, pOpt).kind = "EqValue" -> <<eqFormValue>>
      [] OptOf(cls, pOpt).kind = "Value"   -> <<At(cursor)>>
      [] OTHER -> [k \in 1..(RunEnd(cursor) - cursor) |-> At(cursor + k - 1)]

\* C9 as claimed: the Consume of a Scalar, EqOnlyScalar or ScalarList of a
\* non-string T succeeds only when every value token it reads is present
\* and is, whole, a T literal.
Orig_C9 ==
    [][(/\ pc = "consume"
        /\ OptOf(cls, pOpt).kind \in {"Value", "EqValue", "ValueList"}
        /\ OptOf(cls, pOpt).T # "string"
        /\ pc' = "loop") =>
          \A k \in DOMAIN ValueTokens :
              /\ ~ValueTokens[k].null
              /\ IsLiteral(OptOf(cls, pOpt).T, ValueTokens[k].s)]_vars

\* C10: the Consume of an EqOnlyScalar option never moves the cursor, which
\* stands on the token after the option's own.  With a non-empty inline
\* value it succeeds and binds the value (5 for "5"); without an inline
\* value or with an empty one the parse fails and no bound value changes.
\* After a success the next token, if any, is looked up as a top-level
\* token.
Thm_C10 ==
    /\ [][AtConsume("EqValue") =>
             /\ cursor = looked[Len(looked)] + 1 /\ cursor' = cursor
             /\ specified' = specified /\ args' = args /\ looked' = looked
             /\ IF ~eqFormValue.null /\ eqFormValue.s # << >>
                THEN /\ GoesOn
                     /\ eqFormValue.s = <<"5">> =>
                           value'[pOpt] = FiveAs(OptOf(cls, pOpt).T)
                     /\ \A o \in OptIds(cls) \ {pOpt} : value'[o] = value[o]
                ELSE GivesUp]_vars
    /\ [][(/\ pc = "loop" /\ pOpt # "nullptr"
           /\ OptOf(cls, pOpt).kind = "EqValue") =>
             IF looked[Len(looked)] = Len(argv)
             THEN pc' = "validate" /\ looked' = looked
             ELSE /\ looked' = Append(looked, looked[Len(looked)] + 1)
                  /\ value' = value]_vars

Witness_C10 ==
    /\ Returned /\ calls = 1 /\ cls = "Parser" /\ ret = "true"
    /\ argv = <<Prog, <<"-", "h", "=", "5">>, <<"5">>>>
    /\ specified["height"] /\ value["height"] = 5
    /\ looked = <<2, 3>> /\ args = <<<<"5">>>>

\* the token at index i of argv does not begin with '-'
NoDash(i) == argv[i] = << >> \/ argv[i][1] # "-"

\* the tokens from the cursor up to index e - 1 are the maximal run of
\* tokens that do not begin with '-'
RunStop(e) ==
    /\ \A i \in cursor..(e - 1) : NoDash(i)
    /\ e = Len(argv) + 1 \/ ~NoDash(e)

\* the length of the maximal run of non-'-' tokens at the cursor
RunLen == (CHOOSE e \in cursor..(Len(argv) + 1) : RunStop(e)) - cursor

\* the token str read as a T
AsT(T, str) == readValueFrom(T, Ptr(str), DefaultOf(T)).value

\* C11: a successful Consume of a ScalarList option had no inline value and
\* took the maximal run of tokens after the option name that do not begin
\* with '-': the cursor stands on the token that stopped the run (or on the
\* end of argv) and the list is exactly the tokens of the run read as T, in
\* argv order (5 for the token "5"), whatever the list held before.
Thm_C11 ==
    [][(AtConsume("ValueList") /\ pc' = "loop") =>
          /\ eqFormValue.null
          /\ cursor' \in cursor..(Len(argv) + 1) /\ RunStop(cursor')
          /\ Len(value'[pOpt]) = cursor' - cursor
          /\ \A k \in 1..(cursor' - cursor) :
                /\ value'[pOpt][k] = AsT(OptOf(cls, pOpt).T, argv[cursor + k - 1])
                /\ argv[cursor + k - 1] = <<"5">> => value'[pOpt][k] = 5
          /\ consumed' = Append(consumed, [opt |-> pOpt, ok |-> TRUE])]_vars

Witness_C11 ==
    /\ Returned /\ calls = 1 /\ cls = "Lists" /\ ret = "true"
    /\ argv = <<Prog, <<"-", "-", "d", "i", "m">>, <<"5">>, <<"-", "a">>>>
    /\ value["dim"] = <<5>> /\ value["any"] = << >>
    /\ looked = <<2, 4>> /\ args = << >>

\* every token of the run at the cursor can be read by the list option of
\* kind k: it is not empty and, for an EnumList, is a name of the map
RunReadable(k) ==
    \A i \in cursor..(cursor + RunLen - 1) :
        /\ argv[i] # << >>
        /\ k = "EnumList" => argv[i] \in DOMAIN ModeNames.nameToVal

\* C12: when Parse calls the Consume of a ScalarList (without an inline
\* value) or of an EnumList and fewer than min tokens not beginning with
\* '-' follow, the parse fails and no bound value changes; with at least
\* min such tokens the Consume succeeds exactly when every token of the
\* run can be read; with min = 0 and no such token it succeeds and the
\* list becomes empty.
Thm_C12 ==
    [][(/\ pc = "consume"
        /\ OptOf(cls, pOpt).kind \in {"ValueList", "EnumList"}
        /\ OptOf(cls, pOpt).kind = "ValueList" => eqFormValue.null) =>
          /\ RunLen < OptOf(cls, pOpt).min => GivesUp
          /\ RunLen >= OptOf(cls, pOpt).min =>
                (pc' = "loop" <=> RunReadable(OptOf(cls, pOpt).kind))
          /\ (OptOf(cls, pOpt).min = 0 /\ RunLen = 0) =>
                (GoesOn /\ value'[pOpt] = << >> /\ cursor' = cursor)]_vars

Witness_C12 ==
    /\ Returned /\ calls = 1 /\ cls = "Lists" /\ ret = "true"
    /\ argv = <<Prog, <<"-", "o">>, <<"-", "a">>>>
    /\ specified["opt"] /\ value["opt"] = << >>
    /\ specified["any"] /\ value["any"] = << >>

\* C13 as claimed: the Consume of a Scalar, ScalarList, EnumScalar or
\* EnumList option that is handed an inline value returns false, the parse
\* fails, no bound value changes and the cursor stays where it was.
Orig_C13 ==
    [][(/\ pc = "consume"
        /\ OptOf(cls, pOpt).kind \in {"Value", "ValueList", "Enum", "EnumList"}
        /\ ~eqFormValue.null) =>
          (GivesUp /\ cursor' = cursor)]_vars

\* enum class Mode, by name
ModeOf ==
    (<<"s", "u", "m", "m", "a", "r", "y">> :> 0) @@ (<<"t", "r", "a", "c", "e">> :> 1)

\* C14: when Parse calls the Consume of an EnumScalar option without an
\* inline value: if the next token is a name of the map, the Consume
\* succeeds, the bound value is the enumerator of that name and the cursor
\* moves past that one token; if the token is absent, empty or not a name
\* of the map, the parse fails and no bound value changes.
Thm_C14 ==
    [][(AtConsume("Enum") /\ eqFormValue.null) =>
          IF ~At(cursor).null /\ At(cursor).s \in DOMAIN ModeOf
          THEN /\ GoesOn
               /\ value'[pOpt] = ModeOf[argv[cursor]]
               /\ cursor' = cursor + 1
               /\ \A o \in OptIds(cls) \ {pOpt} : value'[o] = value[o]
          ELSE GivesUp]_vars

Witness_C14 ==
    /\ Returned /\ calls = 1 /\ cls = "Lists" /\ ret = "true"
    /\ argv = <<Prog, <<"-", "m">>, <<"t", "r", "a", "c", "e">>, <<"x">>>>
    /\ specified["mode"] /\ value["mode"] = 1
    /\ looked = <<2, 4>> /\ args = <<<<"x">>>>

\* C15: when Parse calls the Consume of an EnumList option whose run holds
\* at least min tokens: if every token of the run is a name of the map,
\* the Consume succeeds and the list is the enumerators of those names in
\* argv order, one per token; if some token of the run is not a name of
\* the map, the parse fails.
Thm_C15 ==
    [][(AtConsume("EnumList") /\ RunLen >= OptOf(cls, pOpt).min) =>
          IF \A i \in cursor..(cursor + RunLen - 1) : argv[i] \in DOMAIN ModeOf
          THEN /\ GoesOn
               /\ cursor' = cursor + RunLen
               /\ value'[pOpt] =
                     [k \in 1..RunLen |-> ModeOf[argv[cursor + k - 1]]]
          ELSE /\ pc' = "ready" /\ ret' = "false" /\ ~m_valid'
               /\ consumed' = Append(consumed, [opt |-> pOpt, ok |-> FALSE])]_vars

Witness_C15 ==
    /\ Returned /\ calls = 1 /\ cls = "Lists" /\ ret = "true"
    /\ argv = <<Prog, <<"-", "e">>, <<"t", "r", "a", "c", "e">>,
                <<"t", "r", "a", "c", "e">>>>
    /\ specified["modes"] /\ value["modes"] = <<1, 1>>

\* the constructor of enumMap has run
Built == lookup.op # "none"

\* the pairs of vals have pairwise distinct values and pairwise distinct
\* names
DistinctPairs ==
    \A j, k \in DOMAIN vals :
        j # k => (vals[j][1] # vals[k][1] /\ vals[j][2] # vals[k][2])

\* C16: a name map built from pairs with pairwise distinct values and
\* pairwise distinct names gives, for every pair (v, n) of the list,
\* Name(v) = n and Val(n) = (v, found), so the two lookups invert each
\* other, and Size() is the number of pairs; a recorded call on a declared
\* value or name returned just that.
Thm_C16 ==
    (Built /\ DistinctPairs) =>
        /\ \A k \in DOMAIN vals :
              /\ Name(enumMap, vals[k][1]) = vals[k][2]
              /\ Val(enumMap, vals[k][2]) = [val |-> vals[k][1], found |-> TRUE]
              /\ Name(enumMap, Val(enumMap, vals[k][2]).val) = vals[k][2]
              /\ Val(enumMap, Name(enumMap, vals[k][1])).val = vals[k][1]
              /\ (lookup.op = "Name" /\ lookup.key = vals[k][1]) =>
                    lookup.result = vals[k][2]
              /\ (lookup.op = "Val" /\ lookup.key = vals[k][2]) =>
                    lookup.result = [val |-> vals[k][1], found |-> TRUE]
        /\ Size(enumMap) = Len(vals)

Witness_C16 ==
    /\ Built /\ DistinctPairs /\ Len(vals) = 3
    /\ vals[1][1] = 2 /\ vals[2][1] = 0
    /\ lookup.op = "Val" /\ lookup.key = vals[1][2]
    /\ lookup.result = [val |-> 2, found |-> TRUE]

\* C17: Name(v) for a value v that no pair of the list holds returns
\* "<unknown>", Val(n) for a name n that no pair of the list holds returns
\* found = false with the enumerator 0, and no call of Name or Val changes
\* the map.
Thm_C17 ==
    /\ [](/\ (lookup.op = "Name"
              /\ \A k \in DOMAIN vals : vals[k][1] # lookup.key) =>
                lookup.result = <<"<", "u", "n", "k", "n", "o", "w", "n", ">">>
          /\ (lookup.op = "Val"
              /\ \A k \in DOMAIN vals : vals[k][2] # lookup.key) =>
                lookup.result = [val |-> 0, found |-> FALSE])
    /\ [][Built => (enumMap' = enumMap /\ vals' = vals)]_vars

Witness_C17 ==
    /\ lookup.op = "Name" /\ lookup.key = 2 /\ Len(vals) = 3
    /\ \A k \in DOMAIN vals : vals[k][1] # 2
    /\ lookup.result = UnknownStr

\* the declarations registered so far that declare name
Declaring(name) ==
    {i \in DOMAIN decls :
        \/ ~decls[i].shortName.null /\ decls[i].shortName.s = name
        \/ ~decls[i].longName.null /\ decls[i].longName.s = name}

\* C18: after any sequence of registrations, the lookup table holds
\* exactly the names some registered option declared, each resolving to
\* the last registered option that declared it; the list holds every
\* registered option in registration order; a null name adds no entry.
Thm_C18 ==
    /\ \A name \in {<<"-", "a">>, <<"-", "b">>} :
          IF Declaring(name) = {} THEN name \notin DOMAIN reg.map
          ELSE /\ name \in DOMAIN reg.map
               /\ reg.map[name] \in Declaring(name)
               /\ \A i \in Declaring(name) : i <= reg.map[name]
    /\ DOMAIN reg.map \subseteq {<<"-", "a">>, <<"-", "b">>}
    /\ reg.list = [i \in 1..Len(decls) |-> i]

Witness_C18 ==
    /\ Len(decls) = 3 /\ reg.list = <<1, 2, 3>>
    /\ ~decls[1].shortName.null /\ ~decls[1].longName.null
    /\ \A name \in DOMAIN reg.map : reg.map[name] # 1
    /\ decls[3].longName.null /\ ~decls[3].shortName.null

\* the index of the first '=' of str, 0 when it has none
FirstEq(str) ==
    IF \E i \in 1..Len(str) : str[i] = "="
    THEN CHOOSE i \in 1..Len(str) :
             str[i] = "=" /\ \A j \in 1..(i - 1) : str[j] # "="
    ELSE 0

\* the options of the parser that declare name, whole, as one of their names
Owners(name) == {o \in OptIds(cls) : name \in NamesOf(OptOf(cls, o))}

\* C19: when Parse takes a top-level token, the inline value is null for a
\* token without '=' and is everything after the first '=' otherwise, and
\* the option found is one that declares the text before the first '='
\* (the whole token without one) as its short or long name; when no
\* option declares exactly that text, none is found.
Thm_C19 ==
    [][(pc = "loop" /\ ~At(cursor).null) =>
          /\ eqFormValue' =
                IF FirstEq(argv[cursor]) = 0 THEN NullPtr
                ELSE Ptr(SubSeq(argv[cursor], FirstEq(argv[cursor]) + 1,
                                Len(argv[cursor])))
          /\ IF Owners(NamePart(argv[cursor])) = {}
             THEN pOpt' = "nullptr" /\ pc' = "loop"
             ELSE pOpt' \in Owners(NamePart(argv[cursor])) /\ pc' = "consume"
          /\ looked' = Append(looked, cursor)]_vars

Witness_C19 ==
    /\ cls = "ParserStrict" /\ calls = 1 /\ pc = "consume"
    /\ argv[looked[Len(looked)]] = <<"-", "c", "=", "5", "=", "6">>
    /\ pOpt = "count" /\ eqFormValue = Ptr(<<"5", "=", "6">>)
    /\ args = <<<<"-", "-", "d", "i">>, <<"-", "c", "c">>>>

\* C20 as claimed: after a first Parse call on argv whose tokens match no
\* registered name, Positional is argv[1..] in order, a Parser is valid and
\* a ParserStrict given at least one token is not; and a ParserStrict is
\* valid exactly when no Consume failed and Positional is empty.
Orig_C20 ==
    (Returned /\ calls = 1) =>
        /\ (\A i \in 2..Len(argv) : Unmatched(i)) =>
              /\ args = Tail(argv)
              /\ cls = "Parser" => (ret = "true" /\ m_valid)
              /\ (cls = "ParserStrict" /\ Len(argv) > 1) =>
                    (ret = "false" /\ ~m_valid)
        /\ cls = "ParserStrict" =>
              (m_valid <=> (AllConsumed /\ args = << >>))

\* the Enum options declared with a hidden default
HiddenEnums ==
    {id \in OptIds(cls) : OptOf(cls, id).kind = "Enum"
                          /\ OptOf(cls, id).hideDefaultVal}

\* str holds sub as a substring
Contains(str, sub) ==
    \E i \in 1..(Len(str) - Len(sub) + 1) :
        SubSeq(str, i, i + Len(sub) - 1) = sub

\* the names of every entry of o's map but that of o's declared default
AllButDefault(o) ==
    NameList(nameMap(o).valToName, DOMAIN nameMap(o).valToName, TRUE, o.def)

\* C21: for an Enum declared with a hidden default d, in every state (before
\* parsing and after a parse bound the option to any value) ExtraHelp lists
\* the name of every map entry except d's, and HelpSuffix holds no
\* "Default is" phrase.
Orig_C21 ==
    \A id \in HiddenEnums :
        /\ ExtraHelp(OptOf(cls, id), value[id]) = AllButDefault(OptOf(cls, id))
        /\ ~Contains(HelpSuffix(OptOf(cls, id), value[id]), DefaultIs)

\* main has gone past its call of Parse, which failed
MainFailed == main.pc # "Parse" /\ ret = "false"

\* C22 as stated: whenever parsing fails (in consumption or in Validate),
\* main shows the help and exits with a non-zero status, also for an argv
\* that holds -h or --help.
Orig_C22 == MainFailed => main.helpShown /\ main.status > 0

\* C22: whenever parsing fails, main shows the help and returns; its exit
\* status is 1 when the help option was not matched before the parse ended
\* and 0 when it was. When parsing succeeds, main shows the help and
\* returns 0 if the help option was matched, and goes on otherwise.
Thm_C22 ==
    main.pc # "Parse" =>
        /\ ret = "false" =>
              /\ main.pc = "return" /\ main.helpShown
              /\ main.status = (IF specified["help"] THEN 0 ELSE 1)
        /\ ret = "true" /\ specified["help"] =>
              main.pc = "return" /\ main.helpShown /\ main.status = 0
        /\ ret = "true" /\ ~specified["help"] =>
              main.pc = "convert" /\ ~main.helpShown

\* a failed parse of an argv that held -h: the help is shown, the status is 0
Witness_C22 ==
    /\ MainFailed /\ specified["help"]
    /\ main.helpShown /\ main.status = 0
    /\ \E i \in DOMAIN consumed : ~consumed[i].ok

\* i is the result the claim gives a clamp of arg to size entries
ClampedAs(i, arg, size) ==
    /\ i \in 0..(size - 1)
    /\ arg \in 0..(size - 1) => i = arg
    /\ arg < 0 => i = 0
    /\ arg >= size => i = size - 1

\* C23: ClampRow(row) lies in [0, height-1] and ClampCol(col) in
\* [0, width-1], each equal to its argument when that is in range, to 0
\* when it is negative and to the last index when it is too large; the
\* pixel PixelClamped hands out lies inside the width x height buffer, also
\* for an image of width or height 0.
Orig_C23 ==
    /\ access.op = "ClampRow" => ClampedAs(access.result, access.row, height)
    /\ access.op = "ClampCol" => ClampedAs(access.result, access.col, width)
    /\ access.op = "PixelClamped" =>
          access.result >= 0 /\ access.result + channels <= SizeInBytes

\* Parse went through every token without a failed Consume and called
\* Validate
Processed == hook # << >>

\* the number of tokens between the k-th top-level token and the next one
\* (or the end of argv)
GapAfter(k) ==
    (IF k < Len(looked) THEN looked[k + 1] ELSE Len(argv) + 1) - looked[k] - 1

\* the number of value tokens that the Consume of option o, matched by the
\* token at index i, takes in a parse that goes on
TakenBy(o, i) ==
    IF o.kind \in {"Option", "EqValue"} THEN 0
    ELSE IF o.kind \in {"Value", "Enum"} THEN 1
    ELSE RunEnd(i + 1) - (i + 1)

\* the number of value tokens consumed after the k-th top-level token
Taken(k) ==
    IF Unmatched(looked[k]) THEN 0
    ELSE TakenBy(OptOf(cls, MatchOf(looked[k])), looked[k])

\* the number of value tokens consumed after the first n top-level tokens
RECURSIVE TakenUpTo(_)
TakenUpTo(n) == IF n = 0 THEN 0 ELSE TakenUpTo(n - 1) + Taken(n)

\* the top-level tokens that matched an option name
Matched(i) == ~Unmatched(i)

\* the entries this Parse call appended to Positional
Appended == SubSeq(args, Len(entry.args) + 1, Len(args))

\* C24: argv[0] is never looked up nor appended to Positional: the tokens
\* looked up are tokens of argv[1..] in increasing order, and Positional
\* grows by one entry per looked-up token that matches no name.  When Parse
\* has processed all tokens without a consumption failure, every token of
\* argv[1..] is exactly one of a top-level token matched to an option, a
\* value token consumed by the matched option just before it, or a
\* positional token: the first token is top-level, each top-level token is
\* followed by exactly the value tokens its option consumed (none for a
\* positional token), and matched + consumed + positional counts add up to
\* the number of tokens of argv[1..].
Thm_C24 ==
    /\ \A k \in DOMAIN looked :
          /\ looked[k] \in 2..Len(argv)
          /\ k > 1 => looked[k - 1] < looked[k]
    /\ Len(Appended) = Len(SelectSeq(looked, Unmatched))
    /\ calls = 1 => Appended = args
    /\ Processed =>
          /\ Len(argv) > 1 => (looked # << >> /\ looked[1] = 2)
          /\ \A k \in DOMAIN looked : GapAfter(k) = Taken(k)
          /\ Len(SelectSeq(looked, Matched)) + TakenUpTo(Len(looked))
                + Len(Appended) = Len(argv) - 1

\* "-c 5 x": a matched token, the value token it consumed, a positional one
Witness_C24 ==
    /\ Returned /\ calls = 1 /\ cls = "Parser" /\ Processed
    /\ argv = <<Prog, <<"-", "c">>, <<"5">>, <<"x">>>>
    /\ looked = <<2, 4>> /\ args = << <<"x">> >> /\ value["count"] = 5

\* a measure of how far a running Parse call has got
Rank ==
    2 * cursor + (IF pc = "validate" THEN 1 ELSE IF pc = "consume" THEN -1
                  ELSE 0)

\* the kind of the option whose Consume was called last
LastKind == OptOf(cls, consumed[Len(consumed)].opt).kind

\* while Parse runs, the cursor stands on a token of argv[1..] or on the
\* terminating null, and so does the end of the run a list option reads;
\* it stands past the terminating null only once Parse has returned false
\* on the failed Consume of a Scalar or EnumScalar
CursorInside ==
    /\ cursor \in 1..(Len(argv) + 2)
    /\ pc # "ready" => cursor \in 2..(Len(argv) + 1)
    /\ (pc = "consume" /\ OptOf(cls, pOpt).kind \in {"ValueList", "EnumList"})
          => RunEnd(cursor) <= Len(argv) + 1
    /\ cursor = Len(argv) + 2 =>
          /\ Returned /\ ret = "false" /\ Failed
          /\ LastKind \in {"Value", "Enum"}

\* a step of a running Parse call
Running == pc # "ready"

\* C25: for every argv, the cursor moves forward by one token on every
\* iteration of the loop that finds a token and never moves back in
\* Consume; every step of a running Parse call either returns or raises a
\* measure bounded by the length of argv, so Parse terminates; no slot past
\* the terminating null is read: the cursor is past it only after the
\* failed Consume of a Scalar or EnumScalar whose name was the last token,
\* when Parse has returned.
Thm_C25 ==
    /\ [](CursorInside /\ (Running => Rank <= 2 * Len(argv) + 3))
    /\ [][/\ (pc = "loop" /\ pc' # "validate") => cursor' = cursor + 1
          /\ pc = "consume" => cursor' >= cursor
          /\ Running => (pc' = "ready" \/ Rank' > Rank)]_vars

\* "-v -c": the Consume of count steps past the terminating null and fails
Witness_C25 ==
    /\ Returned /\ calls = 1 /\ cls = "Parser" /\ Failed
    /\ argv = <<Prog, <<"-", "v">>, <<"-", "c">>>>
    /\ cursor = Len(argv) + 2 /\ ret = "false" /\ looked = <<2, 3>>

\* the option matched by the k-th top-level token is a Scalar or EnumScalar
TakesOne(k) ==
    /\ Matched(looked[k])
    /\ OptOf(cls, MatchOf(looked[k])).kind \in {"Value", "Enum"}

\* C26: when Parse calls the Consume of a Scalar or EnumScalar option
\* without an inline value and a token follows the option name, Consume
\* moves the cursor past that one token whatever it is (an option name, a
\* token beginning with '-', a token holding '='): the token is not looked
\* up, no flag is set and nothing is appended to Positional.  A string
\* Scalar is bound to the whole text of a non-empty token; an EnumScalar
\* succeeds exactly when the whole token is a name of its map.  The token
\* after the name of such an option is never a top-level token.
Thm_C26 ==
    /\ [](\A k \in DOMAIN looked :
             (TakesOne(k) /\ k < Len(looked)) => looked[k + 1] > looked[k] + 1)
    /\ [][((AtConsume("Value") \/ AtConsume("Enum"))
             /\ eqFormValue.null /\ cursor <= Len(argv)) =>
            /\ cursor' = cursor + 1
            /\ looked' = looked /\ args' = args /\ specified' = specified
            /\ (OptOf(cls, pOpt).T = "string" /\ argv[cursor] # << >>) =>
                  (GoesOn /\ value'[pOpt] = argv[cursor])
            /\ AtConsume("Enum") =>
                  (pc' = "loop" <=>
                      argv[cursor] \in DOMAIN nameMap(OptOf(cls, pOpt)).nameToVal)
          ]_vars

\* "-i -h=1": the token after -i is the input file name, whole; help is
\* not specified and nothing is positional
Witness_C26 ==
    /\ Returned /\ calls = 1 /\ cls = "Options" /\ ret = "true"
    /\ argv = <<Prog, <<"-", "i">>, <<"-", "h", "=", "1">>>>
    /\ value["inputFile"] = <<"-", "h", "=", "1">>
    /\ ~specified["help"] /\ args = << >> /\ looked = <<2>>

\* Parse calls the Consume of a list option (a ScalarList without an inline
\* value, or an EnumList) and fewer than min value tokens follow its name
ArityFails ==
    /\ pc = "consume"
    /\ OptOf(cls, pOpt).kind \in {"ValueList", "EnumList"}
    /\ OptOf(cls, pOpt).kind = "ValueList" => eqFormValue.null
    /\ RunLen < OptOf(cls, pOpt).min

\* no Consume of option o has changed its value: none ran in this Parse
\* call and it held its declared default when the call began
Untouched(o) ==
    /\ \A i \in DOMAIN consumed : consumed[i].opt # o
    /\ entry.value[o] = OptOf(cls, o).def

\* C27 as stated: when the consumption of a list option fails for too few
\* value tokens, the list is left equal to its declared default and the
\* flag is already true.
Orig_C27 ==
    [][ArityFails =>
          (value'[pOpt] = OptOf(cls, pOpt).def /\ specified'[pOpt])]_vars

\* C27: when the consumption of a list option fails for too few value
\* tokens, the parse fails with the list left exactly as it was before the
\* Consume call, and the flag is already true.  The list is the declared
\* default when no earlier Consume of the option replaced it; after an
\* earlier occurrence of the option in the same argv (or in an earlier,
\* failed Parse call) it is the list that occurrence bound.
Thm_C27 ==
    [][ArityFails =>
          /\ GivesUp
          /\ value'[pOpt] = value[pOpt]
          /\ specified[pOpt] /\ specified'[pOpt]
          /\ Untouched(pOpt) => value'[pOpt] = OptOf(cls, pOpt).def]_vars

\* "--dim 5 --dim": the second --dim fails on arity and leaves <<5>>, not
\* the declared <<7, 8>>
Witness_C27 ==
    /\ Returned /\ calls = 1 /\ cls = "Lists" /\ Failed /\ ret = "false"
    /\ argv = <<Prog, <<"-", "-", "d", "i", "m">>, <<"5">>,
                <<"-", "-", "d", "i", "m">>>>
    /\ value["dim"] = <<5>> /\ specified["dim"]
    /\ consumed = <<[opt |-> "dim", ok |-> TRUE], [opt |-> "dim", ok |-> FALSE]>>

\* the first Parse call on the Options parser returned true
OptionsParsed == cls = "Options" /\ Returned /\ calls = 1 /\ ret = "true"

\* C28: whenever Parse returns true on the Options parser, inputFile is
\* specified and its value is not empty; it comes either from an explicit
\* -i/--inputFile with Positional empty or, with no -i given, from the one
\* entry of Positional; outputFile's value is the explicitly given name or
\* the input name with its extension replaced by svg.
Orig_C28 ==
    OptionsParsed =>
        /\ specified["inputFile"] /\ value["inputFile"] # << >>
        /\ IF MatchedNow("inputFile") THEN args = << >>
           ELSE Len(args) = 1 /\ value["inputFile"] = args[1]
        /\ IF MatchedNow("outputFile") THEN value["outputFile"] # << >>
           ELSE value["outputFile"] = replace_extension(value["inputFile"])
====
